---- MODULE Spec2Model ----
(***************************************************************************)
(* Model of the immediate-mode GUI layer of unrust                         *)
(* (src/engine/imgui/mod.rs, src/engine/imgui/widgets.rs): the Metric      *)
(* algebra, the widget descriptors and their equality, the thread-local    *)
(* frame builder (begin / pivot / text_align / label / image /             *)
(* image_with_material / end) and the reconciliation pass pre_render with  *)
(* its cache (Context.go).                                                 *)
(* Spec is the machine of one thread whose binds all succeed; SpecPanic    *)
(* adds the pass in which a bind panics, SpecThreads a second thread,      *)
(* SpecRestyle runs one frame twice under two styles, and SpecMetric,      *)
(* SpecWidget and SpecText apply the pure functions to bounded operands.   *)
(*                                                                         *)
(* An f32 is modelled by an integer-valued float with a mantissa of        *)
(* MantBits bits (24 in f32): a sum is rounded to the nearest representable *)
(* value, ties to even. NaN and the infinities are outside the model.       *)
(***************************************************************************)
EXTENDS Integers, Sequences, FiniteSets, TLC

\* ---------------------------------------------------------------- bounds
\* width of the mantissa of the modelled f32
MantBits == 2
\* a frame declares at most MaxWidgets widgets (cap on inner.id)
MaxLen == 4            \* cap on the number of chars of a text handed to
                       \* make_text_mesh_data
MaxWidgets == 2

\* ------------------------------------------------------------- f32
\* the least power of two u with n < 2^MantBits * u: the spacing of the
\* representable values around n >= 0
RECURSIVE Ulp(_, _)
Ulp(n, u) == IF n < (2 ^ MantBits) * u THEN u ELSE Ulp(n, 2 * u)

\* n >= 0 rounded to a multiple of its spacing, ties to the even multiple
RoundAbs(n) ==
    LET u == Ulp(n, 1)
        q == n \div u
        r == n % u
        up == 2 * r > u \/ (2 * r = u /\ q % 2 = 1)
    IN IF up THEN (q + 1) * u ELSE q * u

RoundF32(n) == IF n < 0 THEN -RoundAbs(-n) ELSE RoundAbs(n)

\* f32 addition
fadd(x, y) == RoundF32(x + y)

\* 0, 1 and the least value whose sum with 1 is rounded
Coord == {0, 1, 2 ^ MantBits}

\* ------------------------------------------------------- Metric (mod.rs)
Native(x, y) == [kind |-> "Native", x |-> x, y |-> y]
Pixel(x, y) == [kind |-> "Pixel", x |-> x, y |-> y]
Mixed(a, b) == [kind |-> "Mixed", a |-> a, b |-> b]

\* impl Default for Metric
MetricDefault == Native(0, 0)

\* #[derive(PartialEq)] on Metric: same variant and equal fields
MetricEq(m, o) ==
    /\ m.kind = o.kind
    /\ IF m.kind = "Mixed"
       THEN m.a[1] = o.a[1] /\ m.a[2] = o.a[2] /\ m.b[1] = o.b[1] /\ m.b[2] = o.b[2]
       ELSE m.x = o.x /\ m.y = o.y

\* impl Add for Metric, arm by arm
MetricAdd(self, other) ==
    CASE self.kind = "Native" /\ other.kind = "Native" ->
            Native(fadd(self.x, other.x), fadd(self.y, other.y))
      [] self.kind = "Native" /\ other.kind = "Pixel" ->
            Mixed(<<self.x, self.y>>, <<other.x, other.y>>)
      [] self.kind = "Native" /\ other.kind = "Mixed" ->
            Mixed(<<fadd(other.a[1], self.x), fadd(other.a[2], self.y)>>, other.b)
      [] self.kind = "Pixel" /\ other.kind = "Native" ->
            Mixed(<<other.x, other.y>>, <<self.x, self.y>>)
      [] self.kind = "Pixel" /\ other.kind = "Pixel" ->
            Pixel(fadd(self.x, other.x), fadd(self.y, other.y))
      [] self.kind = "Pixel" /\ other.kind = "Mixed" ->
            Mixed(other.a, <<fadd(other.b[1], self.x), fadd(other.b[2], self.x)>>)
      [] self.kind = "Mixed" /\ other.kind = "Native" ->
            Mixed(<<fadd(self.a[1], other.x), fadd(self.a[2], other.y)>>, self.b)
      [] self.kind = "Mixed" /\ other.kind = "Pixel" ->
            Mixed(self.a, <<fadd(self.b[1], other.x), fadd(self.b[2], other.y)>>)
      [] self.kind = "Mixed" /\ other.kind = "Mixed" ->
            Mixed(<<fadd(self.a[1], other.a[1]), fadd(self.a[2], other.a[2])>>,
                  <<fadd(self.b[1], other.b[1]), fadd(self.b[2], other.b[2])>>)

\* faulty variant: the Pixel arm negates x only
MetricSub_HalfNeg(self, other) ==
    CASE other.kind = "Native" -> MetricAdd(self, Native(-other.x, -other.y))
      [] other.kind = "Pixel" -> MetricAdd(self, Pixel(-other.x, other.y))
      [] other.kind = "Mixed" ->
            MetricAdd(self, Mixed(<<-other.a[1], -other.a[2]>>,
                                  <<-other.b[1], -other.b[2]>>))

\* impl Sub for Metric: self + (-other)
MetricSub(self, other) ==
    CASE other.kind = "Native" -> MetricAdd(self, Native(-other.x, -other.y))
      [] other.kind = "Pixel" -> MetricAdd(self, Pixel(-other.x, -other.y))
      [] other.kind = "Mixed" ->
            MetricAdd(self, Mixed(<<-other.a[1], -other.a[2]>>,
                                  <<-other.b[1], -other.b[2]>>))

\* ----------------------------------------------- TextAlign, ImguiState
TextAlign == {"Left", "Right", "Center"}

TextAlignDefault == "Left"

\* #[derive(Default)] on internal::ImguiState
ImguiStateDefault == [pivot |-> MetricDefault, text_align |-> TextAlignDefault]

\* #[derive(PartialEq)] on internal::ImguiState
\* faulty variant: the alignment is left out of the comparison
ImguiStateEq_PivotOnly(s, o) == MetricEq(s.pivot, o.pivot)

ImguiStateEq(s, o) == MetricEq(s.pivot, o.pivot) /\ s.text_align = o.text_align

\* ------------------------------------------------- widgets (widgets.rs)
\* An Rc<T> handle: ptr is the allocation it points to (per type T),
\* content the value stored there.
Rc(ptr, content) == [ptr |-> ptr, content |-> content]

\* faulty variant: the contents are compared, not the pointers
ImageRefEq_Deep(r, o) == r.content = o.content

\* impl PartialEq for ImageRef<T>: Rc::ptr_eq
ImageRefEq(r, o) == r.ptr = o.ptr

\* impl From<Rc<Texture>> / From<Rc<Material>> for ImageKind
ImageKindFromTexture(t) == [kind |-> "Texture", ref |-> t]
ImageKindFromMaterial(m) == [kind |-> "Material", ref |-> m]

\* #[derive(PartialEq)] on ImageKind
ImageKindEq(k, o) == k.kind = o.kind /\ ImageRefEq(k.ref, o.ref)

\* Label::new
LabelNew(wid, pos, st, s) ==
    [variant |-> "Label", id |-> wid, pos |-> pos, state |-> st, s |-> s]

\* Image::new: only the pivot of the style state is kept
ImageNew(wid, pos, size, st, kind) ==
    [variant |-> "Image", id |-> wid, pos |-> pos, size |-> size,
     pivot |-> st.pivot, kind |-> kind]

\* faulty variant: the text is left out of the comparison
LabelEq_NoText(l, o) ==
    /\ l.id = o.id
    /\ MetricEq(l.pos, o.pos)
    /\ ImguiStateEq(l.state, o.state)

\* #[derive(PartialEq)] on Label
LabelEq(l, o) ==
    /\ l.id = o.id
    /\ MetricEq(l.pos, o.pos)
    /\ ImguiStateEq(l.state, o.state)
    /\ l.s = o.s

\* #[derive(PartialEq)] on Image
ImageEq(i, o) ==
    /\ i.id = o.id
    /\ MetricEq(i.pos, o.pos)
    /\ MetricEq(i.size, o.size)
    /\ MetricEq(i.pivot, o.pivot)
    /\ ImageKindEq(i.kind, o.kind)

\* Label::is_same: downcast other to Label, then o == self
LabelIsSame(self, other) ==
    IF other.variant = "Label" THEN LabelEq(other, self) ELSE FALSE

\* Image::is_same: downcast other to Image, then o == self
ImageIsSame(self, other) ==
    IF other.variant = "Image" THEN ImageEq(other, self) ELSE FALSE

\* Widget::is_same, dispatched on the dynamic type of self
is_same(self, other) ==
    IF self.variant = "Label" THEN LabelIsSame(self, other)
    ELSE ImageIsSame(self, other)

\* faulty variant: the two Arc pointers are compared, and every frame allocates anew
WidgetEq_ByArc(self, other) == FALSE

\* impl PartialEq for Widget
WidgetEq(self, other) == is_same(self, other)

\* ------------------------------------------------------ inputs of calls
Positions == {Native(0, 0)}
Sizes == {Pixel(1, 1)}
Pivots == {<<0, 0>>, <<1, 1>>}
Aligns == {"Left", "Right"}
Texts == {"a", "b"}
Textures == {Rc(1, "img")}
Materials == {Rc(1, "img")}

\* ------------------------------------------------------------- state
VARIABLES
    id,           \* ImguiRaw.id
    state,        \* ImguiRaw.state
    render_list,  \* ImguiRaw.render_list
    go,           \* Context.go: id -> (widget w, game object node)
    lastFrame,    \* history: render_list the cache was last reconciled against
    since,        \* history: begin / reset called since the latest pre_render
    pass,         \* history: the pre_render just completed: the cache and the frame
                  \* before it, the ids it bound, the calls it made on the
                  \* engine, and what was called since the pass before
    args,         \* operands of a pure function under test
    out,          \* its results
    other,        \* the ImguiRaw of INSTANCE on a second thread
    turn,         \* history: flipped by every call made on the second thread
    declared,     \* history: what the closure of every add_widget call since
                  \* the latest begin() builds, numbered in call order
    poisoned      \* the Mutex of INSTANCE is poisoned: its guard was dropped
                  \* by a panic

vars == <<id, state, render_list, go, lastFrame, since, pass, args, out, other, turn,
          declared, poisoned>>

\* the empty HashMap
EmptyMap == [k \in {} |-> k]

\* HashMap::insert
MapInsert(hm, k, v) == [x \in DOMAIN hm \cup {k} |-> IF x = k THEN v ELSE hm[x]]

Quiet == [begin |-> FALSE, reset |-> FALSE]

\* value of pass once the frame list or the cache has moved on
NoPass == [done |-> FALSE, go |-> EmptyMap, frame |-> <<>>, binds |-> <<>>,
           calls |-> <<>>, since |-> Quiet, panic |-> 0]

\* Default for ImguiRaw, Context::new
\* Default for ImguiRaw
ImguiRawDefault == [id |-> 0, state |-> ImguiStateDefault, render_list |-> <<>>]

InitImgui ==
    /\ id = ImguiRawDefault.id
    /\ state = ImguiRawDefault.state
    /\ render_list = ImguiRawDefault.render_list
    /\ other = ImguiRawDefault
    /\ turn = 0
    /\ declared = <<>>
    /\ poisoned = FALSE
    /\ go = EmptyMap
    /\ lastFrame = <<>>
    /\ since = Quiet
    /\ pass = NoPass

\* no pure function has been applied
NoResult == [op |-> "none"]

Init == InitImgui /\ args = <<>> /\ out = NoResult

\* imgui.inner.lock().unwrap(): panics, before anything is read or written,
\* when the Mutex is poisoned
lock == ~poisoned

\* ------------------------------------------------------ frame builder
\* faulty variant: the id counter is not reset
begin_KeepsId ==
    /\ lock
    /\ render_list' = <<>>
    /\ since' = [since EXCEPT !.begin = TRUE]
    /\ pass' = NoPass
    /\ declared' = <<>>
    /\ UNCHANGED <<id, state, go, lastFrame, args, out, other, turn, poisoned>>

\* faulty variant: the frame list is not cleared, its entries are kept for
\* the ids of the next frame
begin_KeepsList ==
    /\ lock
    /\ id' = 0
    /\ since' = [since EXCEPT !.begin = TRUE]
    /\ pass' = NoPass
    /\ declared' = <<>>
    /\ UNCHANGED <<state, render_list, go, lastFrame, args, out, other, turn, poisoned>>

\* faulty variant: the style state is reset with the frame
begin_ResetsStyle ==
    /\ lock
    /\ id' = 0
    /\ render_list' = <<>>
    /\ state' = ImguiStateDefault
    /\ since' = [since EXCEPT !.begin = TRUE]
    /\ pass' = NoPass
    /\ declared' = <<>>
    /\ UNCHANGED <<go, lastFrame, args, out, other, turn, poisoned>>

begin ==
    /\ lock
    /\ id' = 0
    /\ render_list' = <<>>
    /\ since' = [since EXCEPT !.begin = TRUE]
    /\ pass' = NoPass
    /\ declared' = <<>>
    /\ UNCHANGED <<state, go, lastFrame, args, out, other, turn, poisoned>>

\* The closure handed to add_widget is a record of what it captures;
\* FnOnce calls it with the new id and the style state.
FnOnce(f, wid, st) ==
    CASE f.new = "Label" -> LabelNew(wid, f.pos, st, f.s)
      [] f.new = "Image" -> ImageNew(wid, f.pos, f.size, st, f.kind)

add_widget(f) ==
    /\ lock
    /\ id < MaxWidgets
    /\ id' = id + 1
    /\ render_list' = IF id + 1 >= Len(render_list)
                      THEN Append(render_list, FnOnce(f, id + 1, state))
                      ELSE render_list
    /\ pass' = NoPass
    /\ declared' = Append(declared, FnOnce(f, Len(declared) + 1, state))
    /\ UNCHANGED <<state, go, lastFrame, since, args, out, other, turn, poisoned>>

\* faulty variant: the pair is taken for pixels
pivot_Pixel(p) ==
    /\ lock
    /\ state' = [state EXCEPT !.pivot = Pixel(p[1], p[2])]
    /\ UNCHANGED <<id, render_list, go, lastFrame, since, pass, args, out, other, turn, declared, poisoned>>

\* faulty variant: the descriptors already declared follow the new pivot
pivot_Restyles(p) ==
    /\ lock
    /\ state' = [state EXCEPT !.pivot = Native(p[1], p[2])]
    /\ render_list' = [i \in 1 .. Len(render_list) |->
                          IF render_list[i].variant = "Label"
                          THEN [render_list[i] EXCEPT !.state.pivot = Native(p[1], p[2])]
                          ELSE [render_list[i] EXCEPT !.pivot = Native(p[1], p[2])]]
    /\ UNCHANGED <<id, go, lastFrame, since, pass, args, out, other, turn, declared, poisoned>>

pivot(p) ==
    /\ lock
    /\ state' = [state EXCEPT !.pivot = Native(p[1], p[2])]
    /\ UNCHANGED <<id, render_list, go, lastFrame, since, pass, args, out, other, turn, declared, poisoned>>

text_align(align) ==
    /\ lock
    /\ state' = [state EXCEPT !.text_align = align]
    /\ UNCHANGED <<id, render_list, go, lastFrame, since, pass, args, out, other, turn, declared, poisoned>>

label(pos, s) == add_widget([new |-> "Label", pos |-> pos, s |-> s])

image(pos, size, tex) ==
    add_widget([new |-> "Image", pos |-> pos, size |-> size,
                kind |-> ImageKindFromTexture(tex)])

image_with_material(pos, size, material) ==
    add_widget([new |-> "Image", pos |-> pos, size |-> size,
                kind |-> ImageKindFromMaterial(material)])

\* faulty variant: closing the frame resets it
end_Resets ==
    /\ lock
    /\ id' = 0
    /\ render_list' = <<>>
    /\ declared' = <<>>
    /\ pass' = NoPass
    /\ UNCHANGED <<state, go, lastFrame, since, args, out, other, turn, poisoned>>

end == UNCHANGED vars

\* ----------------------------------------------------- reconciliation
\* faulty variant: nothing is cleared
clear_Keeps(hm) == hm

\* HashMap::clear
clear(hm) == EmptyMap

\* Context::reset
reset ==
    /\ go' = clear(go)
    /\ lastFrame' = <<>>
    /\ since' = [since EXCEPT !.reset = TRUE]
    /\ pass' = NoPass
    /\ UNCHANGED <<id, state, render_list, args, out, other, turn, declared, poisoned>>

\* faulty variant: the comparison of the comment above the call, ">= last id"
strip_cache_Ge(curr, hm) ==
    LET empties == {k \in DOMAIN hm : k >= curr}
    IN [k \in DOMAIN hm \ empties |-> hm[k]]

\* strip_cache: collect the keys k > curr, then remove them
strip_cache(curr, hm) ==
    LET empties == {k \in DOMAIN hm : k > curr}
    IN [k \in DOMAIN hm \ empties |-> hm[k]]

\* faulty variant: every widget is rebound in every pass
do_insert_Always(hm, w) == TRUE

\* faulty variant: a cached id is never rebound
do_insert_IfAbsent(hm, w) == w.id \notin DOMAIN hm

\* do_insert of pre_render
do_insert(hm, w) ==
    IF w.id \notin DOMAIN hm THEN TRUE ELSE ~WidgetEq(hm[w.id].w, w)

\* Widget::bind: engine.new_game_object hands out a new object. It is named
\* by the id it is bound for and a generation bit, so that it differs from
\* every object the cache still holds, the one it replaces included.
bind(w, hm) ==
    IF w.id \in DOMAIN hm
    THEN <<w.id, 1 - hm[w.id].node[2]>>
    ELSE <<w.id, 0>>

\* the pivot Label::bind and Image::bind hand to compute_translate
bind_pivot(w) == IF w.variant = "Label" THEN w.state.pivot ELSE w.pivot

\* compute_translate reaches unreachable!() for a pivot that is not Native
compute_translate_unreachable(pv) ==
    CASE pv.kind = "Native" -> FALSE
      [] OTHER -> TRUE

\* the calls Label::bind, Image::bind and Image::create_material make on the
\* engine and its asset system
bind_calls(w) ==
    IF w.variant = "Label"
    THEN <<"new_game_object", "asset_system", "hidpi_factor", "new_program",
           "new_texture">>
    ELSE IF w.kind.kind = "Texture"
    THEN <<"new_game_object", "hidpi_factor", "asset_system", "new_program">>
    ELSE <<"new_game_object", "hidpi_factor">>

\* the for loop of pre_render over render_list, from index i
RECURSIVE render_loop(_, _, _)
render_loop(list, i, acc) ==
    IF i > Len(list) THEN acc
    ELSE LET w == list[i] IN
         IF do_insert(acc.go, w)
         THEN render_loop(list, i + 1,
                [go |-> MapInsert(acc.go, w.id, [w |-> w, node |-> bind(w, acc.go)]),
                 binds |-> Append(acc.binds, w.id),
                 calls |-> acc.calls \o <<"root">> \o bind_calls(w)])
         ELSE render_loop(list, i + 1, acc)

pre_render ==
    LET r == render_loop(render_list, 1,
                         [go |-> go, binds |-> <<>>,
                          calls |-> <<"gui_context", "screen_size">>])
    IN /\ lock
       /\ go' = strip_cache(id, r.go)
       /\ lastFrame' = render_list
       /\ since' = Quiet
       /\ pass' = [done |-> TRUE, go |-> go, frame |-> lastFrame, binds |-> r.binds,
                   calls |-> r.calls, since |-> since, panic |-> 0]
       /\ UNCHANGED <<id, state, render_list, args, out, other, turn, declared, poisoned>>

Next ==
    \/ begin
    \/ \E p \in Pivots : pivot(p)
    \/ \E a \in Aligns : text_align(a)
    \/ \E pos \in Positions, s \in Texts : label(pos, s)
    \/ \E pos \in Positions, size \in Sizes, t \in Textures : image(pos, size, t)
    \/ \E pos \in Positions, size \in Sizes, m \in Materials :
          image_with_material(pos, size, m)
    \/ pre_render
    \/ end
    \/ reset

Spec == Init /\ [][Next]_vars

\* ------------------------------------------------- a bind that panics
\* faulty variant: the failure is swallowed, the loop goes on with the next
\* widget and the cache is stripped
pre_render_unwind_Continues(k) ==
    LET before == render_loop(SubSeq(render_list, 1, k - 1), 1,
                              [go |-> go, binds |-> <<>>,
                               calls |-> <<"gui_context", "screen_size">>])
        r == render_loop(render_list, k + 1,
                         [before EXCEPT !.calls = before.calls \o <<"root">>])
    IN /\ lock
       /\ k \in 1 .. Len(render_list)
       /\ do_insert(before.go, render_list[k])
       /\ go' = strip_cache(id, r.go)
       /\ poisoned' = TRUE
       /\ pass' = [done |-> FALSE, go |-> go, frame |-> lastFrame, binds |-> r.binds,
                   calls |-> r.calls, since |-> since, panic |-> k]
       /\ UNCHANGED <<id, state, render_list, lastFrame, since, args, out, other, turn,
                      declared>>

\* pre_render when w.bind panics for the k-th widget of the list (bind returns
\* no Result: an engine or asset call that fails, an unwrap or unreachable!
\* panics). Nothing catches it: the loop stops there, strip_cache is not
\* reached, and the unwinding drops the guard of the Mutex, which poisons it.
pre_render_unwind(k) ==
    LET before == render_loop(SubSeq(render_list, 1, k - 1), 1,
                              [go |-> go, binds |-> <<>>,
                               calls |-> <<"gui_context", "screen_size">>])
    IN /\ lock
       /\ k \in 1 .. Len(render_list)
       /\ do_insert(before.go, render_list[k])
       /\ go' = before.go
       /\ poisoned' = TRUE
       /\ pass' = [done |-> FALSE, go |-> go, frame |-> lastFrame,
                   binds |-> before.binds, calls |-> before.calls \o <<"root">>,
                   since |-> since, panic |-> k]
       /\ UNCHANGED <<id, state, render_list, lastFrame, since, args, out, other, turn,
                      declared>>

NextPanic ==
    \/ begin
    \/ \E a \in Aligns : text_align(a)
    \/ \E pos \in Positions, s \in Texts : label(pos, s)
    \/ \E pos \in Positions, size \in Sizes, t \in Textures : image(pos, size, t)
    \/ pre_render
    \/ \E k \in 1 .. MaxWidgets : pre_render_unwind(k)
    \/ reset

SpecPanic == Init /\ [][NextPanic]_vars

\* ------------------------------------------------ a second thread
\* faulty variant: INSTANCE is a plain static, one for all threads
imgui_inst_Static(t) == 1

\* imgui_inst: INSTANCE is thread_local, the thread t gets its own
imgui_inst(t) == t

\* a call of the frame builder, on the ImguiRaw it locks
call_on(inner, c) ==
    CASE c.fn = "begin" -> [inner EXCEPT !.id = 0, !.render_list = <<>>]
      [] c.fn = "pivot" -> [inner EXCEPT !.state.pivot = Native(c.p[1], c.p[2])]
      [] c.fn = "text_align" -> [inner EXCEPT !.state.text_align = c.align]
      [] c.fn = "add_widget" ->
            [inner EXCEPT
                !.id = inner.id + 1,
                !.render_list =
                    IF inner.id + 1 >= Len(inner.render_list)
                    THEN Append(inner.render_list,
                                FnOnce(c.f, inner.id + 1, inner.state))
                    ELSE inner.render_list]

\* the inputs of the calls when two threads are interleaved
ThreadPivots == {<<1, 1>>}
ThreadAligns == {"Right"}
ThreadTexts == {"a"}
ThreadCalls ==
    {[fn |-> "begin"]}
    \cup {[fn |-> "pivot", p |-> p] : p \in ThreadPivots}
    \cup {[fn |-> "text_align", align |-> a] : a \in ThreadAligns}
    \cup {[fn |-> "add_widget", f |-> [new |-> "Label", pos |-> pos, s |-> s]] :
             pos \in Positions, s \in ThreadTexts}
    \cup {[fn |-> "add_widget",
           f |-> [new |-> "Image", pos |-> pos, size |-> size,
                  kind |-> ImageKindFromTexture(t)]] :
             pos \in Positions, size \in Sizes, t \in Textures}

\* the second thread makes the call c
thread2(c) ==
    LET mine == imgui_inst(2)
        inner == IF mine = imgui_inst(1)
                 THEN [id |-> id, state |-> state, render_list |-> render_list]
                 ELSE other
        after == call_on(inner, c)
    IN /\ c.fn = "add_widget" => inner.id < MaxWidgets
       /\ turn' = 1 - turn
       /\ IF mine = imgui_inst(1)
          THEN /\ id' = after.id /\ state' = after.state
               /\ render_list' = after.render_list
               /\ other' = other
          ELSE /\ other' = after
               /\ UNCHANGED <<id, state, render_list>>
       /\ UNCHANGED <<go, lastFrame, since, pass, args, out, declared, poisoned>>

NextThreads ==
    \/ begin
    \/ \E p \in ThreadPivots : pivot(p)
    \/ \E a \in ThreadAligns : text_align(a)
    \/ \E pos \in Positions, s \in ThreadTexts : label(pos, s)
    \/ \E pos \in Positions, size \in Sizes, t \in Textures : image(pos, size, t)
    \/ \E c \in ThreadCalls : thread2(c)

SpecThreads == Init /\ [][NextThreads]_vars

\* ------------------------------------------- the Metric algebra alone
MetricsOver(C) ==
    LET Points == C \X C
    IN {Native(p[1], p[2]) : p \in Points} \cup {Pixel(p[1], p[2]) : p \in Points}
          \cup {Mixed(a, b) : a \in Points, b \in Points}

Metrics == MetricsOver(Coord)

\* one Metric of each kind, for the third operand
Thirds == {Native(0, 1), Pixel(1, 0), Mixed(<<0, 1>>, <<1, 0>>)}

\* operands a, b and c
InitMetric ==
    /\ InitImgui
    /\ args \in Metrics \X Metrics \X Thirds
    /\ out = NoResult

\* a + b, b + a, (a + b) + c and a + (b + c) of the operands
add ==
    /\ out = NoResult
    /\ out' = [op |-> "add",
               ab |-> MetricAdd(args[1], args[2]),
               ba |-> MetricAdd(args[2], args[1]),
               ab_c |-> MetricAdd(MetricAdd(args[1], args[2]), args[3]),
               a_bc |-> MetricAdd(args[1], MetricAdd(args[2], args[3]))]
    /\ UNCHANGED <<id, state, render_list, go, lastFrame, since, pass, args, other, turn, declared, poisoned>>

\* (a + b) - b of the operands
sub ==
    /\ out = NoResult
    /\ out' = [op |-> "sub", r |-> MetricSub(MetricAdd(args[1], args[2]), args[2])]
    /\ UNCHANGED <<id, state, render_list, go, lastFrame, since, pass, args, other, turn, declared, poisoned>>

NextMetric == add \/ sub

SpecMetric == InitMetric /\ [][NextMetric]_vars

\* ------------------------------------------ descriptor equality alone
WidgetPositions == {Native(0, 0), Pixel(0, 1)}
WidgetSizes == {Native(1, 1), Pixel(1, 1)}
WidgetStates == [pivot : {Native(0, 0), Native(1, 1)}, text_align : Aligns]
\* two objects of each type, all with the same content
WidgetSources ==
    {ImageKindFromTexture(Rc(p, "img")) : p \in 1 .. 2}
        \cup {ImageKindFromMaterial(Rc(p, "img")) : p \in 1 .. 2}

Widgets ==
    {LabelNew(i, pos, st, s) :
        i \in 1 .. MaxWidgets, pos \in WidgetPositions, st \in WidgetStates, s \in Texts}
    \cup
    {ImageNew(i, pos, size, st, k) :
        i \in 1 .. MaxWidgets, pos \in WidgetPositions, size \in WidgetSizes,
        st \in WidgetStates, k \in WidgetSources}

\* args[1] is the cached descriptor, args[2] the one declared now
InitWidget == InitImgui /\ args \in Widgets \X Widgets /\ out = NoResult

\* **oldw == **w
eq ==
    /\ out = NoResult
    /\ out' = [op |-> "eq", eq |-> WidgetEq(args[1], args[2])]
    /\ UNCHANGED <<id, state, render_list, go, lastFrame, since, pass, args, other, turn, declared, poisoned>>

\* the decision of pre_render for args[2] when the cache holds args[1] at
\* the same id
replace ==
    /\ out = NoResult
    /\ args[1].id = args[2].id
    /\ out' = [op |-> "replace",
               rebind |-> do_insert(
                   MapInsert(EmptyMap, args[1].id,
                             [w |-> args[1], node |-> bind(args[1], EmptyMap)]),
                   args[2])]
    /\ UNCHANGED <<id, state, render_list, go, lastFrame, since, pass, args, other, turn, declared, poisoned>>

NextWidget == eq \/ replace

SpecWidget == InitWidget /\ [][NextWidget]_vars

\* ------------------------------------- one frame under two styles
\* The same declarations are made in two consecutive frames: args.frame are
\* the closures, args.st1 the style state at each declaration of the first
\* frame and args.st2 at each declaration of the second. The calls are the
\* ones of Next, each enabled when it is the next call of that program: the
\* setters that bring the style state to the one of the next declaration,
\* the declaration, the pass after the last declaration, begin() after the
\* first pass.
RestyleClosures ==
    {[new |-> "Label", pos |-> pos, s |-> s] : pos \in Positions, s \in ThreadTexts}
    \cup {[new |-> "Image", pos |-> pos, size |-> size, kind |-> ImageKindFromTexture(t)] :
             pos \in Positions, size \in Sizes, t \in Textures}
    \cup {[new |-> "Image", pos |-> pos, size |-> size, kind |-> ImageKindFromMaterial(m)] :
             pos \in Positions, size \in Sizes, m \in Materials}

RestylePrograms ==
    UNION {[frame : [1 .. n -> RestyleClosures],
            st1 : [1 .. n -> WidgetStates],
            st2 : [1 .. n -> WidgetStates]] : n \in 1 .. MaxWidgets}

InitRestyle == InitImgui /\ args \in RestylePrograms /\ out = NoResult

\* the first frame has been reconciled
second_frame == lastFrame # <<>>

\* a frame is being declared
frame_open ==
    /\ ~pass.done
    /\ second_frame => since.begin

\* the style state the next declaration is to be made under
next_style == IF second_frame THEN args.st2[id + 1] ELSE args.st1[id + 1]

NextRestyle ==
    \/ /\ pass.done /\ pass.frame = <<>>
       /\ begin
    \/ /\ frame_open /\ id < Len(args.frame)
       /\ state.pivot # next_style.pivot
       /\ pivot(<<next_style.pivot.x, next_style.pivot.y>>)
    \/ /\ frame_open /\ id < Len(args.frame)
       /\ state.text_align # next_style.text_align
       /\ text_align(next_style.text_align)
    \/ /\ frame_open /\ id < Len(args.frame)
       /\ state = next_style
       /\ LET f == args.frame[id + 1] IN
            \/ f.new = "Label" /\ label(f.pos, f.s)
            \/ f.new = "Image" /\ f.kind.kind = "Texture"
                 /\ image(f.pos, f.size, f.kind.ref)
            \/ f.new = "Image" /\ f.kind.kind = "Material"
                 /\ image_with_material(f.pos, f.size, f.kind.ref)
    \/ /\ frame_open /\ id = Len(args.frame)
       /\ pre_render

SpecRestyle == InitRestyle /\ [][NextRestyle]_vars

\* ------------------------------------------------ the text mesh alone
\* A &str is the sequence of the codes of its chars.
NewLine == 10
\* '\n', 'a', 'b', 'c', U+0080, U+00E9 and U+0141
CharCodes == {NewLine, 97, 98, 99, 128, 233, 321}

Strs == UNION {[1 .. n -> CharCodes] : n \in 0 .. MaxLen}

\* char::len_utf8
len_utf8(c) ==
    IF c < 128 THEN 1 ELSE IF c < 2048 THEN 2 ELSE IF c < 65536 THEN 3 ELSE 4

\* str::len: the length in bytes
RECURSIVE str_len(_)
str_len(line) == IF line = <<>> THEN 0 ELSE len_utf8(Head(line)) + str_len(Tail(line))

\* s.split('\n') from index i on, cur being the chars of the line so far
RECURSIVE split(_, _, _)
split(str, i, cur) ==
    IF i > Len(str) THEN <<cur>>
    ELSE IF str[i] = NewLine THEN <<cur>> \o split(str, i + 1, <<>>)
    ELSE split(str, i + 1, Append(cur, str[i]))

\* lines.iter().fold(0, |acc, line| cmp::max(acc, line.len()))
RECURSIVE max_len(_)
max_len(lines) ==
    IF lines = <<>> THEN 0
    ELSE LET rest == max_len(Tail(lines))
             here == str_len(Head(lines))
         IN IF here > rest THEN here ELSE rest

\* c as u8
as_u8(c) == c % 256

\* the glyph cell of a char: c as u8, then 128 if that is 128 or more
glyph(c) == IF as_u8(c) >= 128 THEN 128 ELSE as_u8(c)

\* x_offset of a line, in half glyph widths (gw / 2)
x_offset(align, ml, line) ==
    CASE align = "Left" -> 0
      [] align = "Right" -> 2 * (ml - str_len(line))
      [] align = "Center" -> ml - str_len(line)

\* make_text_mesh_data: for every line the quads of its chars, each with its
\* cell c, the row and column of the cell in the font bitmap (nrow = 16),
\* the x of its left edge gx in half glyph widths, and base_y in glyph
\* heights
make_text_mesh_data(str, align) ==
    LET lines == split(str, 1, <<>>)
        ml == max_len(lines)
    IN [l \in 1 .. Len(lines) |->
          [cidx \in 1 .. Len(lines[l]) |->
              LET c == glyph(lines[l][cidx]) IN
              [c |-> c, g_row |-> c \div 16, g_col |-> c % 16,
               gx |-> 2 * (cidx - 1) + x_offset(align, ml, lines[l]),
               base_y |-> 0 - 2 * (l - 1)]]]

InitText == InitImgui /\ args \in Strs \X TextAlign /\ out = NoResult

text_mesh ==
    /\ out = NoResult
    /\ out' = [op |-> "mesh", lines |-> make_text_mesh_data(args[1], args[2])]
    /\ UNCHANGED <<id, state, render_list, go, lastFrame, since, pass, args, other, turn,
                   declared, poisoned>>

NextText == text_mesh

SpecText == InitText /\ [][NextText]_vars

\* ============================================================ claims
Range(seq) == {seq[i] : i \in 1 .. Len(seq)}

\* C1: the frame list has as many entries as the id counter counts, and its
\* i-th entry carries id i: ids are 1, 2, ... in call order, without gaps or
\* duplicates, in every state (so in every state that follows a begin()).
C1_IdsSequential ==
    /\ Len(render_list) = id
    /\ \A i \in 1 .. Len(render_list) : render_list[i].id = i

\* a frame opened by begin() after a reconciled frame of two widgets, with a
\* label and then an image declared in it
C1_Witness ==
    /\ since.begin /\ ~pass.done
    /\ Len(lastFrame) = 2
    /\ id = 2
    /\ render_list[1].variant = "Label" /\ render_list[2].variant = "Image"
    /\ render_list[1] # lastFrame[1]

\* C2: in a pass, a widget of the frame list is bound, and its cache entry
\* overwritten with the widget and the new game object, exactly when the cache
\* had no entry for its id or held a different descriptor; every other entry
\* is left as it was. Binds happen in list order, at most once per widget.
C2_BindIffNewOrChanged ==
    pass.done =>
        /\ \A i \in 1 .. Len(render_list) :
              LET w == render_list[i]
                  k == w.id
                  bound == k \in Range(pass.binds)
                  stale == k \notin DOMAIN pass.go \/ pass.go[k].w # w
              IN /\ bound <=> stale
                 /\ bound => /\ k \in DOMAIN go
                             /\ go[k].w = w
                             /\ k \in DOMAIN pass.go => go[k].node # pass.go[k].node
                 /\ ~bound => k \in DOMAIN go /\ go[k] = pass.go[k]
        /\ Range(pass.binds) \subseteq {render_list[i].id : i \in 1 .. Len(render_list)}
        /\ \A i, j \in 1 .. Len(pass.binds) : i < j => pass.binds[i] < pass.binds[j]

\* a pass over two widgets that rebound the first, cached with another
\* descriptor, and left the second alone
C2_Witness ==
    /\ pass.done
    /\ Len(render_list) = 2
    /\ pass.binds = <<1>>
    /\ DOMAIN pass.go = {1, 2}
    /\ go[2] = pass.go[2]
    /\ go[1].node # pass.go[1].node

\* the two descriptors come from the same call with the same style state
SameDeclaration(a, b) == [a EXCEPT !.id = 0] = [b EXCEPT !.id = 0]

\* C3: when the frame just reconciled repeats, declaration by declaration, the
\* frame the cache was reconciled against before, the ids are the same in the
\* same order, the pass bound nothing and the cache is unchanged.
C3_StableIdentity ==
    ( /\ pass.done
      /\ Len(pass.frame) = Len(render_list)
      /\ \A i \in 1 .. Len(render_list) : SameDeclaration(pass.frame[i], render_list[i]) )
    => /\ \A i \in 1 .. Len(render_list) : render_list[i].id = pass.frame[i].id
       /\ pass.binds = <<>>
       /\ go = pass.go

\* a second frame, opened by begin(), that repeats a label and an image
C3_Witness ==
    /\ pass.done /\ pass.since.begin
    /\ Len(render_list) = 2
    /\ render_list = pass.frame
    /\ render_list[1].variant = "Label" /\ render_list[2].variant = "Image"
    /\ pass.binds = <<>>

\* frame `now` repeats frame `before` except for the text of the label at k
OnlyTextDiffers(before, now, k) ==
    /\ Len(before) = Len(now)
    /\ k \in 1 .. Len(now)
    /\ before[k].variant = "Label" /\ now[k].variant = "Label"
    /\ before[k].s # now[k].s
    /\ [before[k] EXCEPT !.s = now[k].s] = now[k]
    /\ \A j \in 1 .. Len(now) : j # k => before[j] = now[j]

\* C4: when the frame just reconciled differs from the previous one only in
\* the text of the label with id k, the pass bound id k and nothing else, and
\* the other cache entries kept their game objects.
C4_TextChangeRebindsOne ==
    pass.done =>
        \A k \in 1 .. Len(render_list) :
            OnlyTextDiffers(pass.frame, render_list, k) =>
                /\ pass.binds = <<k>>
                /\ k \in DOMAIN go /\ k \in DOMAIN pass.go
                /\ go[k].node # pass.go[k].node
                /\ \A j \in 1 .. Len(render_list) :
                      j # k => /\ j \in DOMAIN go /\ j \in DOMAIN pass.go
                               /\ go[j] = pass.go[j]

\* the label with id 1 changed its text, the image with id 2 did not change
C4_Witness ==
    /\ pass.done /\ pass.since.begin
    /\ Len(render_list) = 2
    /\ OnlyTextDiffers(pass.frame, render_list, 1)
    /\ render_list[2].variant = "Image"
    /\ pass.binds = <<1>>

C7_ResetThenNoCalls ==
    /\ since.reset => go = EmptyMap
    /\ (pass.done /\ pass.since.reset /\ render_list = <<>>) =>
          go = EmptyMap /\ pass.calls = <<>>

\* C7 as amended: after Context.reset() the cache is empty, and a pass over
\* an empty frame list that follows a reset leaves it empty, binds nothing
\* and makes only the two calls pre_render makes before its loop,
\* engine.gui_context() and engine.screen_size().
C7_Reset ==
    /\ since.reset => go = EmptyMap
    /\ (pass.done /\ pass.since.reset /\ render_list = <<>>) =>
          /\ go = EmptyMap
          /\ pass.binds = <<>>
          /\ pass.calls = <<"gui_context", "screen_size">>

\* reset(), begin() with no declaration, then the pass
C7_Witness ==
    /\ pass.done
    /\ pass.since.reset /\ pass.since.begin
    /\ render_list = <<>> /\ id = 0
    /\ go = EmptyMap
    /\ pass.calls = <<"gui_context", "screen_size">>


\* C8: Metric addition is commutative and associative over all kinds.
C8_AddCommutativeAssociative ==
    out.op = "add" => out.ab = out.ba /\ out.ab_c = out.a_bc

\* C8, the instance named in the claim: Pixel(x,y) + Mixed(n,(bx,by)) is
\* Mixed(n,(bx+x,by+y))
C8_PixelPlusMixed ==
    (out.op = "add" /\ args[1].kind = "Pixel" /\ args[2].kind = "Mixed") =>
        out.ab = Mixed(args[2].a, <<args[2].b[1] + args[1].x, args[2].b[2] + args[1].y>>)

SumsExact(a, b) ==
    IF a.kind = "Mixed"
    THEN \A i \in 1 .. 2 :
            /\ fadd(a.a[i], b.a[i]) = a.a[i] + b.a[i]
            /\ fadd(a.b[i], b.b[i]) = a.b[i] + b.b[i]
    ELSE fadd(a.x, b.x) = a.x + b.x /\ fadd(a.y, b.y) = a.y + b.y

SameSource(k, o) == k.kind = o.kind /\ k.ref.ptr = o.ref.ptr

\* same variant and every field equal, a source counting by its object
AllFieldsEqual(a, b) ==
    /\ a.variant = b.variant
    /\ a.id = b.id
    /\ a.pos = b.pos
    /\ a.variant = "Label" => a.state = b.state /\ a.s = b.s
    /\ a.variant = "Image" =>
          a.size = b.size /\ a.pivot = b.pivot /\ SameSource(a.kind, b.kind)

\* C10: two descriptors are equal exactly when they are of the same variant
\* with all fields equal, an image source counting by the identity of its
\* handle and by its kind; a widget replaced at its id by one of the other
\* variant, or by an image of another handle object, is rebound.
C10_DescriptorEquality ==
    /\ out.op = "eq" => (out.eq <=> AllFieldsEqual(args[1], args[2]))
    /\ out.op = "replace" =>
          ( ( \/ args[1].variant # args[2].variant
              \/ /\ args[1].variant = "Image" /\ args[2].variant = "Image"
                 /\ ~SameSource(args[1].kind, args[2].kind) )
            => out.rebind )

\* an image replaced by the same image of another texture object with the
\* same content
C10_Witness ==
    /\ out.op = "replace" /\ out.rebind
    /\ args[1].variant = "Image" /\ args[2].variant = "Image"
    /\ args[1].kind.kind = "Texture" /\ args[2].kind.kind = "Texture"
    /\ args[1].kind.ref.ptr # args[2].kind.ref.ptr
    /\ args[1].kind.ref.content = args[2].kind.ref.content
    /\ [args[1] EXCEPT !.kind = args[2].kind] = args[2]

\* the style a descriptor has snapshotted agrees with the style state st
Snapshots(w, st) ==
    IF w.variant = "Label" THEN w.state = st ELSE w.pivot = st.pivot

\* C11: the first begin() after a pass (the only step that sets since.begin)
\* resets the id counter and empties the frame list, and leaves the style
\* state and the cache as they were; a descriptor declared in the frame so
\* opened snapshots the style state of that moment, which without a setter
\* call is still the one set before begin().
C11_BeginKeepsStyle ==
    [][ /\ (~since.begin /\ since'.begin) =>
              /\ id' = 0 /\ render_list' = <<>>
              /\ state' = state /\ go' = go
        /\ (since.begin /\ Len(render_list') = Len(render_list) + 1) =>
              /\ state' = state
              /\ Snapshots(render_list'[Len(render_list')], state) ]_vars

\* pivot and text_align were set in the frame reconciled before; after
\* begin() a label and an image carry them
C11_Witness ==
    /\ since.begin
    /\ state = [pivot |-> Native(1, 1), text_align |-> "Right"]
    /\ Len(lastFrame) = 1 /\ lastFrame[1].variant = "Label" /\ lastFrame[1].state = state
    /\ Len(render_list) = 2
    /\ render_list[1].variant = "Label" /\ render_list[1].state = state
    /\ render_list[2].variant = "Image" /\ render_list[2].pivot = state.pivot

\* C12: a step that changes the style state (only pivot and text_align do)
\* changes neither the id counter nor the frame list, so no descriptor already
\* declared changes its snapshot, nor the cache; a step that appends a
\* descriptor gives it the style state current at that moment.
C12_SettersAffectLaterOnly ==
    [][ /\ state' # state =>
              /\ id' = id
              /\ render_list' = render_list
              /\ go' = go
        /\ Len(render_list') = Len(render_list) + 1 =>
              /\ Snapshots(render_list'[Len(render_list')], state)
              /\ \A i \in 1 .. Len(render_list) : render_list'[i] = render_list[i] ]_vars

\* a label declared under the default style, then both setters called, then
\* a second label: the first keeps the default, the second has the new style
C12_Witness ==
    /\ Len(render_list) = 2
    /\ render_list[1].variant = "Label" /\ render_list[1].state = ImguiStateDefault
    /\ render_list[2].variant = "Label"
    /\ render_list[2].state = [pivot |-> Native(1, 1), text_align |-> "Right"]
    /\ state = render_list[2].state

\* C13: a call made on the second thread (a step that flips turn) leaves the
\* id counter, the style state and the frame list of the first thread as they
\* were, and a call made on the first thread leaves those of the second as
\* they were; the id a thread gives a new descriptor is the number of
\* declarations it has made itself since its own begin().
C13_ThreadsIndependent ==
    [][ /\ turn' # turn => UNCHANGED <<id, state, render_list>>
        /\ turn' = turn => other' = other
        /\ id' = Len(render_list')
        /\ other'.id = Len(other'.render_list)
        /\ \A i \in 1 .. Len(render_list') : render_list'[i].id = i
        /\ \A i \in 1 .. Len(other'.render_list) : other'.render_list[i].id = i ]_vars

\* the first thread has declared an image and a label under the default
\* style, the second thread a single label after both setters
C13_Witness ==
    /\ id = 2 /\ state = ImguiStateDefault
    /\ render_list[1].variant = "Image" /\ render_list[2].variant = "Label"
    /\ other.id = 1
    /\ other.state = [pivot |-> Native(1, 1), text_align |-> "Right"]
    /\ other.render_list[1].variant = "Label" /\ other.render_list[1].id = 1
    /\ other.render_list[1].state = other.state

\* C14: the frame list is in every state the sequence of descriptors declared
\* since the latest begin(), in call order: no declaration is skipped by the
\* append guard and no descriptor of an earlier frame is left in it; so the
\* list a pass reads, and reconciles the cache against, is that sequence.
C14_NoStaleDescriptor ==
    /\ render_list = declared
    /\ Len(render_list) = id
    /\ pass.done =>
          /\ lastFrame = declared
          /\ \A k \in DOMAIN go : k \in 1 .. Len(declared) /\ go[k].w = declared[k]

\* a frame of two widgets, then a frame of one widget that differs from the
\* first of the frame before: the pass read the new descriptor alone
C14_Witness ==
    /\ pass.done /\ pass.since.begin
    /\ Len(pass.frame) = 2
    /\ Len(declared) = 1
    /\ declared[1] # pass.frame[1]
    /\ lastFrame = declared
    /\ DOMAIN go = {1} /\ go[1].w = declared[1]

\* how many times x occurs in seq
Count(seq, x) == Cardinality({i \in 1 .. Len(seq) : seq[i] = x})

\* C15: when the bind of the k-th widget of the frame list fails, the pass ends
\* there without completing and the failure is not retried (the widget was
\* handed to bind once); the cache holds no new entry for that widget or for
\* any widget after it, nothing was evicted (every id cached before the pass
\* is still cached, those above the id counter unchanged), and the widgets
\* bound earlier in the pass are cached with their new game objects.
C15_BindFailure ==
    pass.panic > 0 =>
        LET k == pass.panic IN
        /\ ~pass.done
        /\ Count(pass.calls, "root") = Len(pass.binds) + 1
        /\ \A i \in k .. Len(render_list) :
              /\ i \in DOMAIN go <=> i \in DOMAIN pass.go
              /\ i \in DOMAIN go => go[i] = pass.go[i]
        /\ DOMAIN pass.go \subseteq DOMAIN go
        /\ \A j \in DOMAIN pass.go : j > id => go[j] = pass.go[j]
        /\ \A i \in Range(pass.binds) :
              /\ i < k
              /\ go[i].w = render_list[i]
              /\ i \in DOMAIN pass.go => go[i].node # pass.go[i].node

\* both widgets of the frame differ from the cached ones; the first was
\* rebound, the bind of the second failed and its old entry is still cached
C15_Witness ==
    /\ pass.panic = 2
    /\ pass.binds = <<1>>
    /\ DOMAIN pass.go = {1, 2}
    /\ go[1].w = render_list[1] /\ go[1].node # pass.go[1].node
    /\ go[2] = pass.go[2] /\ go[2].w # render_list[2]

\* C16: every quad of the text mesh has the cell of its char: the code of the
\* char when that is below 128, and 128 for every code from 128 on.
C16_GlyphCell ==
    out.op = "mesh" =>
        LET lines == split(args[1], 1, <<>>) IN
        /\ Len(out.lines) = Len(lines)
        /\ \A l \in 1 .. Len(lines) :
              /\ Len(out.lines[l]) = Len(lines[l])
              /\ \A i \in 1 .. Len(lines[l]) :
                    out.lines[l][i].c = IF lines[l][i] >= 128 THEN 128 ELSE lines[l][i]

\* the largest number of chars in a line
MaxGlyphs(lines) ==
    CHOOSE n \in {Len(lines[l]) : l \in 1 .. Len(lines)} :
        \A l \in 1 .. Len(lines) : Len(lines[l]) <= n

\* C17: with Left alignment the i-th glyph of every line starts i - 1 glyph
\* widths from 0; with Right alignment every line is shifted by the number
\* of glyphs it is shorter than the longest line, so that its last glyph ends
\* at the end of the longest line. (gx counts half glyph widths.)
C17_Alignment ==
    out.op = "mesh" =>
        LET lines == split(args[1], 1, <<>>)
            m == MaxGlyphs(lines)
        IN \A l \in 1 .. Len(out.lines) : \A i \in 1 .. Len(out.lines[l]) :
              /\ args[2] = "Left" => out.lines[l][i].gx = 2 * (i - 1)
              /\ args[2] = "Right" =>
                    /\ out.lines[l][i].gx = 2 * (i - 1) + 2 * (m - Len(lines[l]))
                    /\ i = Len(lines[l]) => out.lines[l][i].gx + 2 = 2 * m

\* C18: the ambient pivot is Native in every state, and so is the pivot of
\* every descriptor in the frame list and in the cache; no bind of a pass is
\* of a widget whose pivot takes compute_translate to unreachable!().
C18_PivotNative ==
    /\ state.pivot.kind = "Native"
    /\ \A i \in 1 .. Len(render_list) :
          ~compute_translate_unreachable(bind_pivot(render_list[i]))
    /\ \A k \in DOMAIN go : ~compute_translate_unreachable(bind_pivot(go[k].w))
    /\ pass.done =>
          \A i \in 1 .. Len(pass.binds) :
              bind_pivot(render_list[pass.binds[i]]).kind = "Native"

\* a pass that bound a label and an image declared after pivot((1, 1))
C18_Witness ==
    /\ pass.done
    /\ pass.binds = <<1, 2>>
    /\ render_list[1].variant = "Label" /\ render_list[2].variant = "Image"
    /\ bind_pivot(render_list[1]) = Native(1, 1)
    /\ bind_pivot(render_list[2]) = Native(1, 1)

\* C19: when neither begin() nor reset() was called between two passes, the
\* frame list of the second pass starts with the descriptors of the first,
\* the declarations made in between follow with the next ids, the id counter
\* having gone on from the number of the earlier ones; the second pass bound
\* exactly the added ids and left the cache entries of the earlier ids as
\* they were.
C19_OnlyBeginResets ==
    (pass.done /\ ~pass.since.begin /\ ~pass.since.reset) =>
        LET n == Len(pass.frame) IN
        /\ n <= Len(render_list)
        /\ id = Len(render_list)
        /\ \A i \in 1 .. n : render_list[i] = pass.frame[i]
        /\ \A i \in n + 1 .. Len(render_list) : render_list[i].id = i
        /\ pass.binds = [i \in 1 .. Len(render_list) - n |-> n + i]
        /\ \A k \in 1 .. n :
              k \in DOMAIN go /\ k \in DOMAIN pass.go /\ go[k] = pass.go[k]

\* a label, a pass, then an image declared without begin(), and a pass
C19_Witness ==
    /\ pass.done /\ ~pass.since.begin /\ ~pass.since.reset
    /\ Len(pass.frame) = 1 /\ pass.frame[1].variant = "Label"
    /\ id = 2 /\ Len(render_list) = 2
    /\ render_list[1] = pass.frame[1]
    /\ render_list[2].variant = "Image" /\ render_list[2].id = 2
    /\ pass.binds = <<2>>
    /\ go[1] = pass.go[1]

\* C20: a label carries the style state of its declaration and an image its
\* pivot alone. After the second frame is reconciled: when the style of
\* every declaration differs from the first frame in the alignment only,
\* the pass bound the labels and no image; when it differs in the pivot
\* only, the pass bound every widget; in general a label is bound exactly
\* when its style state differs, an image exactly when its pivot does.
C20_StyleSnapshot ==
    ( /\ pass.done /\ pass.frame # <<>> ) =>
        LET IsLabel(i) == args.frame[i].new = "Label"
            SamePivot(i) == args.st1[i].pivot = args.st2[i].pivot
            SameAlign(i) == args.st1[i].text_align = args.st2[i].text_align
            Rebound(i) == IF IsLabel(i) THEN ~(SamePivot(i) /\ SameAlign(i))
                          ELSE ~SamePivot(i)
            n == Len(args.frame)
        IN /\ Len(render_list) = n
           /\ \A i \in 1 .. n :
                 IF IsLabel(i) THEN render_list[i].state = args.st2[i]
                 ELSE /\ render_list[i].pivot = args.st2[i].pivot
                      /\ DOMAIN render_list[i] = {"variant", "id", "pos", "size", "pivot", "kind"}
           /\ (\A i \in 1 .. n : SamePivot(i) /\ ~SameAlign(i)) =>
                 Range(pass.binds) = {i \in 1 .. n : IsLabel(i)}
           /\ (\A i \in 1 .. n : ~SamePivot(i) /\ SameAlign(i)) =>
                 Range(pass.binds) = 1 .. n
           /\ Range(pass.binds) = {i \in 1 .. n : Rebound(i)}

\* a label and an image declared under Left in the first frame and under
\* Right in the second, with the same pivot: the label alone was rebound
C20_Witness ==
    /\ pass.done /\ pass.frame # <<>>
    /\ Len(args.frame) = 2
    /\ args.frame[1].new = "Label" /\ args.frame[2].new = "Image"
    /\ \A i \in 1 .. 2 :
          /\ args.st1[i] = [pivot |-> Native(1, 1), text_align |-> "Left"]
          /\ args.st2[i] = [pivot |-> Native(1, 1), text_align |-> "Right"]
    /\ pass.binds = <<1>>
    /\ go[2] = pass.go[2]

====
